---- MODULE Spec2Model ----
(***************************************************************************)
(* DailyShop Dairy (src/app.py): the inventory / ledger core.              *)
(*                                                                         *)
(* The five CSV files are the state.  Every handler reads a whole table,   *)
(* changes it in memory and writes the whole table back.                   *)
(*                                                                         *)
(* Numbers.  Python floats are modelled as fixed-point integers counting   *)
(* thousandths (1000 = 1.0).  The input sets below hold only values with   *)
(* at most three binary places (multiples of 0.125), so every sum and      *)
(* product the handlers compute is exact both in IEEE doubles and here,    *)
(* and round(x, 2) meets exact ties, which Python resolves half-to-even.   *)
(***************************************************************************)
EXTENDS Integers, Sequences, FiniteSets, TLC

VARIABLES
    inventory,   \* data/inventory.csv : sequence of rows
    orders,      \* data/orders.csv
    expenses,    \* data/expenses.csv  (purchases and expenses)
    payments,    \* data/payments.csv
    last,        \* the handler call that ran last, with what it returned
    calls,       \* how many handler calls have run
    report,      \* the balances table the payments page showed last
    pc,          \* concurrent sessions: position of each adjust_stock call
    arg,         \* concurrent sessions: the arguments of each call
    inv,         \* concurrent sessions: the DataFrame each call holds in memory
    res,         \* concurrent sessions: what each call returned
    inv0,        \* inventory.csv when the run began
    overlap,     \* concurrent sessions: both calls had read before either wrote
    again,       \* the call before the last one was compute_customer_balances too
    mem,         \* record store: the DataFrame handed to save_csv
    disk,        \* record store: the CSV file of the entity
    got,         \* record store: what load_csv returned since the last save
    users,       \* data/users.csv
    accounts,    \* running-balance variant (src/main.py): data/users.csv
    tickets,     \* running-balance variant (src/main.py): data/orders.csv
    db_inventory,\* database variant (src/modules): table inventory, item -> quantity
    db_sales     \* database variant (src/modules): table sales

tables == <<inventory, orders, expenses, payments>>
sessions == <<pc, arg, inv, res, inv0, overlap>>
store == <<mem, disk, got>>
others == <<users, accounts, tickets, db_inventory, db_sales>>
vars == <<inventory, orders, expenses, payments, last, calls, report, pc, arg, inv, res, inv0, overlap,
          again, mem, disk, got, users, accounts, tickets, db_inventory, db_sales>>

----------------------------------------------------------------------------
(* Bounds of the model *)

\* handler calls in one run of the sequential specifications
MaxCalls == 4

----------------------------------------------------------------------------
(* Fixed-point arithmetic *)

One == 10 * 10 * 10

\* float(a) * float(b)
Mul(a, b) == (a * b) \div One

\* round(x, 2): nearest hundredth, an exact tie goes to the even hundredth
Round2(x) ==
    LET r  == x % 10
        lo == x - r
    IN  IF r < 5 THEN lo
        ELSE IF r > 5 THEN lo + 10
        ELSE IF (lo \div 10) % 2 = 0 THEN lo ELSE lo + 10

\* int(float(x)): truncation toward zero
TruncInt(x) == IF x >= 0 THEN (x \div One) * One ELSE -(((-x) \div One) * One)

----------------------------------------------------------------------------
(* Strings *)

\* str.lower() on the payment-mode strings the model uses
Lower(s) ==
    CASE s = "Credit"   -> "credit"
      [] s = "CREDIT"   -> "credit"
      [] s = "Cash"     -> "cash"
      [] s = "Yes"      -> "yes"
      [] s = "No"       -> "no"
      [] OTHER          -> s

\* str.strip()
Strip(s) ==
    CASE s = " credit " -> "credit"
      [] OTHER          -> s

----------------------------------------------------------------------------
(* Record store: DataFrames and CSV files                                   *)
(*                                                                          *)
(* A DataFrame is its column list and its rows; a row maps each column to   *)
(* a cell.  A cell is a str, a float, None or NaN.  A CSV file is its       *)
(* header and its lines of text fields, or it does not exist.               *)

Str(s) == [str |-> s]
Float(x) == [float |-> x]
None == [none |-> TRUE]
NaN == [nan |-> TRUE]

Range(s) == {s[i] : i \in DOMAIN s}

\* a variant that drops the header
new_df_no_header(cols) == [columns |-> <<>>, rows |-> <<>>]

\* pd.DataFrame(columns=cols)
new_df(cols) == [columns |-> cols, rows |-> <<>>]

NoFile == [exists |-> FALSE, columns |-> <<>>, rows |-> <<>>]

\* the digits after the point of repr(float), f counting thousandths
frac_text(f) ==
    IF f % 100 = 0 THEN ToString(f \div 100)
    ELSE IF f % 10 = 0
         THEN (IF f < 100 THEN "0" ELSE "") \o ToString(f \div 10)
         ELSE (IF f < 10 THEN "00" ELSE IF f < 100 THEN "0" ELSE "") \o ToString(f)

\* repr(float): "2.0", "0.125", "-1.0"
float_text(x) ==
    LET a == IF x < 0 THEN -x ELSE x
    IN  (IF x < 0 THEN "-" ELSE "") \o ToString(a \div One) \o "." \o frac_text(a % One)

\* the text to_csv writes for a cell; None and NaN are written as nothing
cell_text(c) ==
    IF "str" \in DOMAIN c THEN c.str
    ELSE IF "float" \in DOMAIN c THEN float_text(c.float)
    ELSE ""

\* save_csv: df.to_csv(path, index=False), the file it leaves
save_csv(df) ==
    [exists |-> TRUE, columns |-> df.columns,
     rows |-> [i \in DOMAIN df.rows |->
                [k \in DOMAIN df.columns |-> cell_text(df.rows[i][df.columns[k]])]]]

\* the fields read_csv takes for missing values, dtype=str or not
na_values == {"", "NA", "N/A", "NaN", "nan", "null", "NULL"}

\* pd.read_csv(path, dtype=str): one field
read_cell(text) == IF text \in na_values THEN NaN ELSE Str(text)

index_of(cols, c) == CHOOSE k \in DOMAIN cols : cols[k] = c

\* pd.read_csv(path, dtype=str), the file as a DataFrame
read_csv(file) ==
    [columns |-> file.columns,
     rows |-> [i \in DOMAIN file.rows |->
                [c \in Range(file.columns) |->
                    read_cell(file.rows[i][index_of(file.columns, c)])]]]

\* a variant that returns the file as read, without adding columns
load_csv_as_read(file, cols) ==
    IF file.exists THEN read_csv(file) ELSE new_df(cols)

\* load_csv: missing columns are added with None, the result is df[cols]
load_csv(file, cols) ==
    IF file.exists
    THEN LET df == read_csv(file)
         IN  [columns |-> cols,
              rows |-> [i \in DOMAIN df.rows |->
                         [c \in Range(cols) |->
                            IF c \in Range(df.columns) THEN df.rows[i][c] ELSE None]]]
    ELSE new_df(cols)

NotLoaded == [loaded |-> FALSE, df |-> new_df(<<>>)]

----------------------------------------------------------------------------
(* Inventory table *)

\* list_inventory: the file as load_csv reads it, its numeric columns coerced.
\* A text column is kept as the text save_csv will write for the cell that
\* read_csv made of it.
list_inventory(file) ==
    [i \in DOMAIN file |->
        [file[i] EXCEPT !.selling_price = TruncInt(@),
                        !.category = cell_text(read_cell(@))]]

\* a variant that never finds the row
first_index_none(df, item_id) == 0

\* inv[inv["item_id"].astype(str) == str(item_id)].index[0], 0 when empty
first_index(df, item_id) ==
    IF \E i \in DOMAIN df : df[i].item_id = item_id
    THEN CHOOSE i \in DOMAIN df :
            /\ df[i].item_id = item_id
            /\ \A j \in DOMAIN df : df[j].item_id = item_id => i <= j
    ELSE 0

\* a variant that writes at the last existing label, df.loc[len(df) - 1]
append_row_overwrite(df, row) ==
    IF df = <<>> THEN <<row>> ELSE [df EXCEPT ![Len(df)] = row]

\* df.loc[len(df)] = [...]: the row goes after the rows already there
append_row(df, row) == Append(df, row)

\* upsert_inventory: the table it saves
upsert_inventory(file, item_id, category, stock_qty, selling_price) ==
    LET df  == list_inventory(file)
        idx == first_index(df, item_id)
        row == [item_id |-> item_id, category |-> category, stock_qty |-> stock_qty,
                selling_price |-> TruncInt(selling_price)]
    IN  IF idx = 0 THEN append_row(df, row) ELSE [df EXCEPT ![idx] = row]

\* delete_inventory: the table it saves
delete_inventory(file, item_id) ==
    SelectSeq(list_inventory(file), LAMBDA r : r.item_id # item_id)

\* a variant without the new < 0 check
adjust_check_unchecked(df, item_id, delta) ==
    LET idx == first_index(df, item_id)
    IN  IF idx = 0 THEN [ok |-> FALSE, msg |-> "Item not found", val |-> 0]
        ELSE [ok |-> TRUE, msg |-> "", val |-> df[idx].stock_qty + delta]

\* a variant that tests new <= 0
adjust_check_strict(df, item_id, delta) ==
    LET idx == first_index(df, item_id)
    IN  IF idx = 0 THEN [ok |-> FALSE, msg |-> "Item not found", val |-> 0]
        ELSE IF df[idx].stock_qty + delta <= 0
             THEN [ok |-> FALSE, msg |-> "Insufficient stock", val |-> 0]
             ELSE [ok |-> TRUE, msg |-> "", val |-> df[idx].stock_qty + delta]

\* the check of adjust_stock on the DataFrame it loaded
adjust_check(df, item_id, delta) ==
    LET idx == first_index(df, item_id)
    IN  IF idx = 0 THEN [ok |-> FALSE, msg |-> "Item not found", val |-> 0]
        ELSE IF df[idx].stock_qty + delta < 0
             THEN [ok |-> FALSE, msg |-> "Insufficient stock", val |-> 0]
             ELSE [ok |-> TRUE, msg |-> "", val |-> df[idx].stock_qty + delta]

\* a variant that adds to the cell, inv.loc[idx, "stock_qty"] += new
adjust_assign_add(df, item_id, new) ==
    [df EXCEPT ![first_index(df, item_id)].stock_qty = @ + new]

\* inv.loc[idx, "stock_qty"] = new
adjust_assign(df, item_id, new) ==
    [df EXCEPT ![first_index(df, item_id)].stock_qty = new]

\* adjust_stock run to completion: what it returns and the file it leaves
adjust_stock(file, item_id, delta) ==
    LET df == list_inventory(file)
        r  == adjust_check(df, item_id, delta)
    IN  [ok |-> r.ok, msg |-> r.msg, val |-> r.val,
         file |-> IF r.ok THEN adjust_assign(df, item_id, r.val) ELSE file]

----------------------------------------------------------------------------
(* Transaction rows *)

\* the row record_purchase appends to expenses.csv
purchase_row(item_id, qty, rate) ==
    [type |-> "Purchase", item_id |-> item_id, qty |-> qty, rate |-> rate,
     amount |-> Round2(Mul(qty, rate))]

\* a variant that names an inventory item in the row
expense_row_with_item(amount) ==
    [type |-> "Expense", item_id |-> "milk", qty |-> 0, rate |-> 0, amount |-> amount]

\* the row record_expense appends to expenses.csv
expense_row(amount) ==
    [type |-> "Expense", item_id |-> "", qty |-> 0, rate |-> 0, amount |-> amount]

\* a variant that gives every order its total as balance
order_row_always_balance(customer_id, item_id, qty, selling_price, payment_mode) ==
    LET sp    == TruncInt(selling_price)
        total == Round2(Mul(qty, sp))
    IN  [customer_id |-> customer_id, item_id |-> item_id, qty |-> qty,
         selling_price |-> sp, total |-> total, payment_mode |-> payment_mode,
         balance |-> total]

\* the row record_order appends to orders.csv
order_row(customer_id, item_id, qty, selling_price, payment_mode) ==
    LET sp    == TruncInt(selling_price)
        total == Round2(Mul(qty, sp))
    IN  [customer_id |-> customer_id, item_id |-> item_id, qty |-> qty,
         selling_price |-> sp, total |-> total, payment_mode |-> payment_mode,
         balance |-> IF Lower(Strip(payment_mode)) = "credit" THEN total ELSE 0]

\* the row record_payment appends to payments.csv
payment_row(customer_id, amount) ==
    [customer_id |-> customer_id, amount |-> amount]

\* what a handler call leaves in `last`
Call(op, item_id, qty, price, customer, mode, ok, msg, val) ==
    [op |-> op, item_id |-> item_id, qty |-> qty, price |-> price,
     customer |-> customer, mode |-> mode, ok |-> ok, msg |-> msg, val |-> val]

NoSession == [p \in {} |-> 0]

----------------------------------------------------------------------------
(* Users table *)

\* the row bootstrap_files writes
default_admin ==
    [user_id |-> "admin", name |-> "Master Admin", role |-> "admin", mobile |-> "9999999999"]

\* bootstrap_files, the users file it leaves: the default admin is written
\* when users.csv does not exist, an existing file is left alone
bootstrap_files(exists, users_file) ==
    IF ~exists THEN <<default_admin>> ELSE users_file

\* users[users["mobile"].astype(str) == str(mobile)].index[0], 0 when empty
first_mobile(df, mobile) ==
    IF \E i \in DOMAIN df : df[i].mobile = mobile
    THEN CHOOSE i \in DOMAIN df :
            /\ df[i].mobile = mobile
            /\ \A j \in DOMAIN df : df[j].mobile = mobile => i <= j
    ELSE 0

\* create_or_update_user: the table it saves.  The row is looked up by
\* mobile; an existing row keeps its user_id.
create_or_update_user(users_file, user_id, name, role, mobile) ==
    LET idx == first_mobile(users_file, mobile)
    IN  IF idx = 0
        THEN append_row(users_file,
                        [user_id |-> user_id, name |-> name, role |-> role, mobile |-> mobile])
        ELSE [users_file EXCEPT ![idx] =
                [user_id |-> @.user_id, name |-> name, role |-> role, mobile |-> mobile]]

\* the variables of the other variants, before anything ran
OthersInit ==
    /\ users = bootstrap_files(FALSE, <<>>)
    /\ accounts = <<>>
    /\ tickets = <<>>
    /\ db_inventory = <<>>
    /\ db_sales = <<>>

----------------------------------------------------------------------------
(* The state bootstrap_files leaves on first run: four empty tables *)

Init ==
    /\ inventory = <<>>
    /\ orders = <<>>
    /\ expenses = <<>>
    /\ payments = <<>>
    /\ last = Call("bootstrap_files", "", 0, 0, "", "", TRUE, "", 0)
    /\ calls = 0
    /\ report = new_df(<<>>)
    /\ pc = NoSession /\ arg = NoSession /\ inv = NoSession /\ res = NoSession
    /\ inv0 = <<>> /\ overlap = FALSE
    /\ again = FALSE
    /\ mem = new_df(<<>>) /\ disk = NoFile /\ got = NotLoaded
    /\ OthersInit

----------------------------------------------------------------------------
(* Handlers, each run to completion (one user action at a time) *)

Tick ==
    /\ calls < MaxCalls
    /\ calls' = calls + 1
    /\ again' = (last.op = "compute_customer_balances")

UpsertInventory(item_id, category, stock_qty, selling_price) ==
    /\ Tick
    /\ inventory' = upsert_inventory(inventory, item_id, category, stock_qty, selling_price)
    /\ last' = Call("upsert_inventory", item_id, stock_qty, selling_price, "", "", TRUE, "", 0)
    /\ UNCHANGED <<orders, expenses, payments, report, sessions, store, others>>

DeleteInventory(item_id) ==
    /\ Tick
    /\ inventory' = delete_inventory(inventory, item_id)
    /\ last' = Call("delete_inventory", item_id, 0, 0, "", "", TRUE, "", 0)
    /\ UNCHANGED <<orders, expenses, payments, report, sessions, store, others>>

AdjustStock(item_id, delta) ==
    LET r == adjust_stock(inventory, item_id, delta)
    IN  /\ Tick
        /\ inventory' = r.file
        /\ last' = Call("adjust_stock", item_id, delta, 0, "", "", r.ok, r.msg, r.val)
        /\ UNCHANGED <<orders, expenses, payments, report, sessions, store, others>>

RecordExpense(amount) ==
    /\ Tick
    /\ expenses' = append_row(expenses, expense_row(amount))
    /\ last' = Call("record_expense", "", 0, amount, "", "", TRUE, "", 0)
    /\ UNCHANGED <<inventory, orders, payments, report, sessions, store, others>>

RecordPurchase(item_id, qty, rate) ==
    LET r == adjust_stock(inventory, item_id, qty)
    IN  /\ Tick
        /\ expenses' = append_row(expenses, purchase_row(item_id, qty, rate))
        /\ inventory' = r.file
        /\ last' = Call("record_purchase", item_id, qty, rate, "", "", r.ok, r.msg, r.val)
        /\ UNCHANGED <<orders, payments, report, sessions, store, others>>

RecordOrder(customer_id, item_id, qty, selling_price, payment_mode) ==
    LET r == adjust_stock(inventory, item_id, -qty)
    IN  /\ Tick
        /\ orders' = append_row(orders, order_row(customer_id, item_id, qty, selling_price, payment_mode))
        /\ inventory' = r.file
        /\ last' = Call("record_order", item_id, qty, selling_price, customer_id, payment_mode,
                        r.ok, r.msg, r.val)
        /\ UNCHANGED <<expenses, payments, report, sessions, store, others>>

\* a variant that refuses the payment of a customer who has no order
RecordPayment_checked(customer_id, amount) ==
    LET known == \E i \in DOMAIN orders : orders[i].customer_id = customer_id
    IN  /\ Tick
        /\ payments' = IF known THEN append_row(payments, payment_row(customer_id, amount))
                       ELSE payments
        /\ last' = Call("record_payment", "", 0, amount, customer_id, "", known, "", 0)
        /\ UNCHANGED <<inventory, orders, expenses, report, sessions, store, others>>

RecordPayment(customer_id, amount) ==
    /\ Tick
    /\ payments' = append_row(payments, payment_row(customer_id, amount))
    /\ last' = Call("record_payment", "", 0, amount, customer_id, "", TRUE, "", 0)
    /\ UNCHANGED <<inventory, orders, expenses, report, sessions, store, others>>

----------------------------------------------------------------------------
(* Inputs *)

Items == {"milk", "butter"}
ItemIds == Items \cup {"ghost"}
\* <<item_id, category, stock_qty, selling_price>> of the add / edit form
UpsertInputs ==
    {<<"milk", "Dairy", 2000, 25500>>, <<"milk", "Dairy", -1000, 25000>>,
     <<"butter", "N/A", 1000, 210000>>}
Deltas == {-2000, 2000}
\* <<qty, rate>> of the purchase form
PurchaseInputs == {<<500, 250>>}
\* <<qty, selling_price, payment_mode>> of the order form
OrderInputs == {<<125, 25000, "Credit">>, <<1000, 25500, "Credit">>, <<2000, 25000, "Cash">>}
Amounts == {50000}

\* one user action: a form is submitted and its handler runs
Next ==
    \/ \E u \in UpsertInputs : UpsertInventory(u[1], u[2], u[3], u[4])
    \/ \E i \in ItemIds : DeleteInventory(i)
    \/ \E i \in ItemIds, d \in Deltas : AdjustStock(i, d)
    \/ \E a \in Amounts : RecordExpense(a)
    \/ \E i \in {"milk", "ghost"}, q \in PurchaseInputs : RecordPurchase(i, q[1], q[2])
    \/ \E i \in {"milk", "ghost"}, q \in OrderInputs : RecordOrder("c1", i, q[1], q[2], q[3])
    \/ \E a \in Amounts : RecordPayment("c1", a)

Spec == Init /\ [][Next]_vars

----------------------------------------------------------------------------
(* Balance calculator *)

\* the customer ids of the model, in the order groupby sorts its keys
CustomerOrder == <<"c1", "c2">>
Customers == {CustomerOrder[i] : i \in DOMAIN CustomerOrder}

RECURSIVE SeqSum(_)
\* Series.sum() of a numeric column
SeqSum(col) ==
    IF col = <<>> THEN 0 ELSE Head(col) + SeqSum(Tail(col))

\* df.groupby("customer_id")[col].sum(), col given as the rows' values:
\* one entry per customer_id present
groupby_sum(df, values) ==
    [c \in {df[i].customer_id : i \in DOMAIN df} |->
        LET rows == SelectSeq([i \in DOMAIN df |-> <<df[i].customer_id, values[i]>>],
                              LAMBDA r : r[1] = c)
        IN  SeqSum([i \in DOMAIN rows |-> rows[i][2]])]

\* pd.to_numeric(credits["total"]) and pd.to_numeric(payments["amount"])
total_column(df) == [i \in DOMAIN df |-> df[i].total]
amount_column(df) == [i \in DOMAIN df |-> df[i].amount]

\* a variant that compares without .str.lower()
credit_orders_case_sensitive(orders_file) ==
    SelectSeq(orders_file, LAMBDA r : r.payment_mode = "Credit")

\* orders[orders["payment_mode"].astype(str).str.lower() == "credit"]
credit_orders(orders_file) ==
    SelectSeq(orders_file, LAMBDA r : Lower(r.payment_mode) = "credit")

\* a variant that keeps only the customers present in both sums (an inner join)
balance_rows_inner(credit_sum, pay_sum) ==
    LET keys  == SelectSeq(CustomerOrder,
                           LAMBDA c : c \in DOMAIN credit_sum /\ c \in DOMAIN pay_sum)
    IN  [k \in DOMAIN keys |->
            [customer_id |-> keys[k],
             credit_sales_total |-> credit_sum[keys[k]],
             payments_total |-> pay_sum[keys[k]],
             pending_balance |-> credit_sum[keys[k]] - pay_sum[keys[k]]]]

\* pd.concat([credit_sum, pay_sum], axis=1).fillna(0.0), pending_balance, reset_index
balance_rows(credit_sum, pay_sum) ==
    LET keys  == SelectSeq(CustomerOrder, LAMBDA c : c \in DOMAIN credit_sum)
                 \o SelectSeq(CustomerOrder,
                              LAMBDA c : c \in DOMAIN pay_sum /\ c \notin DOMAIN credit_sum)
        cs(c) == IF c \in DOMAIN credit_sum THEN credit_sum[c] ELSE 0
        ps(c) == IF c \in DOMAIN pay_sum THEN pay_sum[c] ELSE 0
    IN  [k \in DOMAIN keys |->
            [customer_id |-> keys[k],
             credit_sales_total |-> cs(keys[k]),
             payments_total |-> ps(keys[k]),
             pending_balance |-> cs(keys[k]) - ps(keys[k])]]

RECURSIVE sort_values_ascending(_)
\* a variant that sorts with ascending=True
sort_values_ascending(df) ==
    IF df = <<>> THEN <<>>
    ELSE LET m == CHOOSE i \in DOMAIN df :
                     /\ \A j \in DOMAIN df : df[j].pending_balance >= df[i].pending_balance
                     /\ \A j \in DOMAIN df :
                           df[j].pending_balance = df[i].pending_balance => i <= j
         IN  <<df[m]>> \o sort_values_ascending(SubSeq(df, 1, m - 1) \o SubSeq(df, m + 1, Len(df)))

RECURSIVE sort_values(_)
\* out.sort_values("pending_balance", ascending=False); equal keys keep their order
sort_values(df) ==
    IF df = <<>> THEN <<>>
    ELSE LET m == CHOOSE i \in DOMAIN df :
                     /\ \A j \in DOMAIN df : df[j].pending_balance <= df[i].pending_balance
                     /\ \A j \in DOMAIN df :
                           df[j].pending_balance = df[i].pending_balance => i <= j
         IN  <<df[m]>> \o sort_values(SubSeq(df, 1, m - 1) \o SubSeq(df, m + 1, Len(df)))

\* compute_customer_balances: the table it returns.  Both files empty: the
\* empty table of line 201.  Otherwise the columns are the index name that
\* reset_index turns into a column, the names the two sums were renamed to,
\* and the column added last.
compute_customer_balances(orders_file, payments_file) ==
    IF orders_file = <<>> /\ payments_file = <<>>
    THEN new_df(<<"customer_id", "credit_sales_total", "payments_total", "pending_balance">>)
    ELSE LET credits == credit_orders(orders_file)
         IN  [columns |-> <<"customer_id">> \o <<"credit_sales_total", "payments_total">>
                              \o <<"pending_balance">>,
              rows |-> sort_values(balance_rows(
                          groupby_sum(credits, total_column(credits)),
                          groupby_sum(payments_file, amount_column(payments_file))))]

\* a variant that keeps the rows it returned before and adds the new ones
ViewBalances_incremental ==
    /\ Tick
    /\ report' = [columns |-> compute_customer_balances(orders, payments).columns,
                  rows |-> report.rows \o compute_customer_balances(orders, payments).rows]
    /\ last' = Call("compute_customer_balances", "", 0, 0, "", "", TRUE, "", 0)
    /\ UNCHANGED <<inventory, orders, expenses, payments, sessions, store, others>>

\* the payments page: it shows the balances table
ViewBalances ==
    /\ Tick
    /\ report' = compute_customer_balances(orders, payments)
    /\ last' = Call("compute_customer_balances", "", 0, 0, "", "", TRUE, "", 0)
    /\ UNCHANGED <<inventory, orders, expenses, payments, sessions, store, others>>

\* payment_mode strings of the order form and of callers that pass their own
ModeInputs == {"Cash", "Credit", "CREDIT", " credit "}

\* amounts of the payment form: below and above the total of one order
PaymentInputs == {1000, 5000}

\* the ledger pages: orders and payments of two customers, and the balances view
BalNext ==
    \/ UpsertInventory("milk", "Dairy", 2000, 25000)
    \/ \E c \in Customers, m \in ModeInputs : RecordOrder(c, "milk", 125, 25000, m)
    \/ \E c \in Customers, a \in PaymentInputs : RecordPayment(c, a)
    \/ ViewBalances

BalSpec == Init /\ [][BalNext]_vars

----------------------------------------------------------------------------
(* Two sessions call adjust_stock at once.  No lock is taken: list_inventory *)
(* reads the file, the row is changed in memory, save_csv writes the whole   *)
(* DataFrame back, and the other session may run between the two.            *)

Procs == 1..2
ConcStocks == {-1000, 0, 1000, 2000}
ConcDeltas == {-2000, -1000, 1000}

ConcInit ==
    /\ \E s \in ConcStocks :
          inventory = upsert_inventory(upsert_inventory(<<>>, "milk", "Dairy", s, 25000),
                                       "butter", "Dairy", 1000, 210000)
    /\ orders = <<>>
    /\ expenses = <<>>
    /\ payments = <<>>
    /\ last = Call("bootstrap_files", "", 0, 0, "", "", TRUE, "", 0)
    /\ calls = 0
    /\ report = new_df(<<>>)
    /\ pc = [p \in Procs |-> "call"]
    /\ arg \in [Procs -> [item_id : ItemIds, delta : ConcDeltas]]
    /\ inv = [p \in Procs |-> <<>>]
    /\ res = [p \in Procs |-> [ok |-> FALSE, msg |-> "", val |-> 0]]
    /\ inv0 = inventory
    /\ overlap = FALSE
    /\ again = FALSE
    /\ mem = new_df(<<>>) /\ disk = NoFile /\ got = NotLoaded
    /\ OthersInit

\* adjust_stock up to its return or to the point where it is about to save
AdjustRead(p) ==
    LET df == list_inventory(inventory)
        r  == adjust_check(df, arg[p].item_id, arg[p].delta)
    IN  /\ pc[p] = "call"
        /\ res' = [res EXCEPT ![p] = r]
        /\ inv' = [inv EXCEPT ![p] = IF r.ok THEN adjust_assign(df, arg[p].item_id, r.val) ELSE df]
        /\ pc' = [pc EXCEPT ![p] = IF r.ok THEN "save" ELSE "done"]
        /\ overlap' = (overlap \/ (r.ok /\ \E q \in Procs \ {p} : pc[q] = "save"))
        /\ UNCHANGED <<inventory, orders, expenses, payments, last, calls, report, arg, inv0, again, store, others>>

\* a variant that writes only the row it changed into the file
AdjustSave_own_row(p) ==
    /\ pc[p] = "save"
    /\ inventory' = adjust_assign(inventory, arg[p].item_id, res[p].val)
    /\ pc' = [pc EXCEPT ![p] = "done"]
    /\ UNCHANGED <<orders, expenses, payments, last, calls, report, arg, inv, res, inv0, overlap, again, store, others>>

\* save_csv(inv, INVENTORY_FILE); return True, new
AdjustSave(p) ==
    /\ pc[p] = "save"
    /\ inventory' = inv[p]
    /\ pc' = [pc EXCEPT ![p] = "done"]
    /\ UNCHANGED <<orders, expenses, payments, last, calls, report, arg, inv, res, inv0, overlap, again, store, others>>

ConcNext == \E p \in Procs : AdjustRead(p) \/ AdjustSave(p)

ConcSpec == ConcInit /\ [][ConcNext]_vars

----------------------------------------------------------------------------
(* The record store by itself: one entity, a table is saved and the file is *)
(* loaded.  The entity is payments, with three of its columns.              *)

\* rows of a table held in memory
MaxRows == 2

StoreCols == <<"customer_id", "amount", "remarks">>

\* rows as record_payment builds them: str, float(amount), remarks or ""
StoreRows ==
    {[customer_id |-> Str("c1"), amount |-> Float(a), remarks |-> Str(r)] :
        a \in {1000, 125}, r \in {"", "paid"}}

StoreTables ==
    {[columns |-> StoreCols, rows |-> rs] :
        rs \in UNION {[1..n -> StoreRows] : n \in 0..MaxRows}}

\* files found on disk: none, a header only, a file written before the
\* remarks column existed, a file with its columns in another order
StoreFiles ==
    {NoFile,
     save_csv(new_df(StoreCols)),
     [exists |-> TRUE, columns |-> <<"customer_id", "amount">>,
      rows |-> <<(<<"c1", "1.0">>), (<<"c2", "0.125">>)>>],
     [exists |-> TRUE, columns |-> <<"amount", "customer_id">>,
      rows |-> <<(<<"2.5", "c1">>)>>]}

StoreInit ==
    /\ inventory = <<>>
    /\ orders = <<>>
    /\ expenses = <<>>
    /\ payments = <<>>
    /\ last = Call("bootstrap_files", "", 0, 0, "", "", TRUE, "", 0)
    /\ calls = 0
    /\ report = new_df(<<>>)
    /\ pc = NoSession /\ arg = NoSession /\ inv = NoSession /\ res = NoSession
    /\ inv0 = <<>> /\ overlap = FALSE
    /\ again = FALSE
    /\ mem \in StoreTables
    /\ disk \in StoreFiles
    /\ got = NotLoaded
    /\ OthersInit

\* save_csv(df, path)
SaveCsv ==
    /\ disk' = save_csv(mem)
    /\ got' = NotLoaded
    /\ UNCHANGED <<inventory, orders, expenses, payments, last, calls, report, again, sessions, mem, others>>

\* load_csv(path, cols)
LoadCsv ==
    /\ got' = [loaded |-> TRUE, df |-> load_csv(disk, StoreCols)]
    /\ UNCHANGED <<inventory, orders, expenses, payments, last, calls, report, again, sessions, mem, disk, others>>

StoreNext == SaveCsv \/ LoadCsv

StoreSpec == StoreInit /\ [][StoreNext]_vars

----------------------------------------------------------------------------
(* The stock ledger of one item: after the item was added, only purchases   *)
(* and orders are recorded for it.                                          *)

\* the stock_qty the item was added with
LedgerStocks == {0, 1000, 2000}

LedgerInit ==
    /\ \E s \in LedgerStocks : inventory = upsert_inventory(<<>>, "milk", "Dairy", s, 25000)
    /\ orders = <<>>
    /\ expenses = <<>>
    /\ payments = <<>>
    /\ last = Call("bootstrap_files", "", 0, 0, "", "", TRUE, "", 0)
    /\ calls = 0
    /\ report = new_df(<<>>)
    /\ pc = NoSession /\ arg = NoSession /\ inv = NoSession /\ res = NoSession
    /\ inv0 = inventory /\ overlap = FALSE
    /\ again = FALSE
    /\ mem = new_df(<<>>) /\ disk = NoFile /\ got = NotLoaded
    /\ OthersInit

LedgerNext ==
    \/ \E q \in PurchaseInputs : RecordPurchase("milk", q[1], q[2])
    \/ \E q \in OrderInputs : RecordOrder("c1", "milk", q[1], q[2], q[3])

LedgerSpec == LedgerInit /\ [][LedgerNext]_vars

----------------------------------------------------------------------------
(* Any number of sessions call adjust_stock at once, on a stock that starts *)
(* non-negative.                                                            *)

\* sessions that run at once
MaxProcs == 3

ManyProcs == 1..MaxProcs
ManyStocks == {0, 1000}
ManyDeltas == {-1000, 1000}

ManyInit ==
    /\ \E s \in ManyStocks :
          inventory = upsert_inventory(upsert_inventory(<<>>, "milk", "Dairy", s, 25000),
                                       "butter", "Dairy", 1000, 210000)
    /\ orders = <<>>
    /\ expenses = <<>>
    /\ payments = <<>>
    /\ last = Call("bootstrap_files", "", 0, 0, "", "", TRUE, "", 0)
    /\ calls = 0
    /\ report = new_df(<<>>)
    /\ pc = [p \in ManyProcs |-> "call"]
    /\ arg \in [ManyProcs -> [item_id : {"milk", "butter"}, delta : ManyDeltas]]
    /\ inv = [p \in ManyProcs |-> <<>>]
    /\ res = [p \in ManyProcs |-> [ok |-> FALSE, msg |-> "", val |-> 0]]
    /\ inv0 = inventory
    /\ overlap = FALSE
    /\ again = FALSE
    /\ mem = new_df(<<>>) /\ disk = NoFile /\ got = NotLoaded
    /\ OthersInit

ManyNext == \E p \in ManyProcs : AdjustRead(p) \/ AdjustSave(p)

ManySpec == ManyInit /\ [][ManyNext]_vars

----------------------------------------------------------------------------
(* User management (src/myapp.py): users carry an active flag, the admin    *)
(* edits the table, and every run of the script starts with the bootstrap.  *)

\* the row bootstrap_files_and_default_admin appends
default == [user_id |-> "UADMIN", name |-> "Master Admin", mobile |-> "9999999999",
            role |-> "admin", active |-> "Yes"]

\* role == "admin" and active in ("yes", "true", "1") for some row
has_admin(df) ==
    \E i \in DOMAIN df :
        /\ Lower(Strip(df[i].role)) = "admin"
        /\ Lower(Strip(df[i].active)) \in {"yes", "true", "1"}

\* bootstrap_files_and_default_admin: the users file it leaves
bootstrap_files_and_default_admin(users_file) ==
    IF ~has_admin(users_file) THEN Append(users_file, default) ELSE users_file

\* upsert_user: the table it saves, the row looked up by user_id
upsert_user(users_file, user_id, name, mobile, role, active) ==
    LET row == [user_id |-> user_id, name |-> name, mobile |-> mobile,
                role |-> role, active |-> active]
        ids == {i \in DOMAIN users_file : users_file[i].user_id = user_id}
    IN  IF ids = {}
        THEN append_row(users_file, row)
        ELSE [users_file EXCEPT ![CHOOSE i \in ids : \A j \in ids : i <= j] = row]

MyUsersInit ==
    /\ inventory = <<>>
    /\ orders = <<>>
    /\ expenses = <<>>
    /\ payments = <<>>
    /\ last = Call("bootstrap_files_and_default_admin", "", 0, 0, "", "", TRUE, "", 0)
    /\ calls = 0
    /\ report = new_df(<<>>)
    /\ pc = NoSession /\ arg = NoSession /\ inv = NoSession /\ res = NoSession
    /\ inv0 = <<>> /\ overlap = FALSE
    /\ again = FALSE
    /\ mem = new_df(<<>>) /\ disk = NoFile /\ got = NotLoaded
    /\ users = bootstrap_files_and_default_admin(<<>>)
    /\ accounts = <<>>
    /\ tickets = <<>>
    /\ db_inventory = <<>>
    /\ db_sales = <<>>

\* the script starts: bootstrap_files_and_default_admin()
Bootstrap ==
    /\ Tick
    /\ users' = bootstrap_files_and_default_admin(users)
    /\ last' = Call("bootstrap_files_and_default_admin", "", 0, 0, "", "", TRUE, "", 0)
    /\ UNCHANGED <<tables, report, sessions, store, accounts, tickets, db_inventory, db_sales>>

\* add_user_form: uid = "U" + uuid4, a fresh id at every call
AddUser(mobile, role, active) ==
    /\ Tick
    /\ users' = upsert_user(users, "U" \o ToString(calls + 1), "Asha", mobile, role, active)
    /\ last' = Call("upsert_user", "U" \o ToString(calls + 1), 0, 0, mobile, role, TRUE, "", 0)
    /\ UNCHANGED <<tables, report, sessions, store, accounts, tickets, db_inventory, db_sales>>

\* "Save Users" after the admin edited the active cell of one row in the table
SaveUsers(i, active) ==
    /\ Tick
    /\ i \in DOMAIN users
    /\ users' = [users EXCEPT ![i].active = active]
    /\ last' = Call("save_users", users[i].user_id, 0, 0, users[i].mobile, active, TRUE, "", 0)
    /\ UNCHANGED <<tables, report, sessions, store, accounts, tickets, db_inventory, db_sales>>

\* rows the table is edited at
MaxUsers == 3

\* mobiles typed into the add_user_form
MyMobiles == {"9999999999", "9000000001"}

MyUsersNext ==
    \/ Bootstrap
    \/ \E m \in MyMobiles, r \in {"admin", "staff"}, a \in {"Yes", "No"} : AddUser(m, r, a)
    \/ \E i \in 1..MaxUsers, a \in {"Yes", "No"} : SaveUsers(i, a)

MyUsersSpec == MyUsersInit /\ [][MyUsersNext]_vars

----------------------------------------------------------------------------
(* Inventory of src/myapp.py: sell_price is rounded to a multiple of 5 on   *)
(* every save.  Prices and rates count thousandths, as everywhere.          *)

\* round_to_5_int: int(round(x / 5.0) * 5); round() of a float takes a tie
\* to the even integer
round_to_5_int(x) ==
    LET q == x \div (5 * One)
        r == x % (5 * One)
        n == IF 2 * r < 5 * One THEN q
             ELSE IF 2 * r > 5 * One THEN q + 1
             ELSE IF q % 2 = 0 THEN q ELSE q + 1
    IN  n * 5 * One

\* save_inventory_df: the table it writes
save_inventory_df(df) ==
    [i \in DOMAIN df |-> [df[i] EXCEPT !.sell_price = round_to_5_int(@)]]

\* upsert_inventory_item: the table it saves
upsert_inventory_item(file, item_id, rate, sell_price) ==
    LET row == [item_id |-> item_id, rate |-> rate, sell_price |-> round_to_5_int(sell_price)]
        idx == first_index(file, item_id)
    IN  save_inventory_df(IF idx = 0 THEN Append(file, row) ELSE [file EXCEPT ![idx] = row])

\* the add_item form: upsert_inventory_item(..., sell_price or round_to_5_int(rate))
SaveItem(item_id, rate, sell_price) ==
    LET x == IF sell_price # 0 THEN sell_price ELSE rate
    IN  /\ Tick
        /\ inventory' = upsert_inventory_item(inventory, item_id, rate,
                             IF sell_price # 0 THEN sell_price ELSE round_to_5_int(rate))
        /\ last' = Call("upsert_inventory_item", item_id, 0, x, "", "", TRUE, "", 0)
        /\ UNCHANGED <<orders, expenses, payments, report, sessions, store, others>>

\* "Save Inventory" after the sell_price cell of one row was edited in the table
SaveInventory(i, sell_price) ==
    /\ Tick
    /\ i \in DOMAIN inventory
    /\ inventory' = save_inventory_df([inventory EXCEPT ![i].sell_price = sell_price])
    /\ last' = Call("save_inventory_df", inventory[i].item_id, 0, sell_price, "", "", TRUE, "", 0)
    /\ UNCHANGED <<orders, expenses, payments, report, sessions, store, others>>

\* purchase rates of the form: 2.5, 7.5, 12.5, 22.4
PriceRates == {2500, 7500, 12500, 22400}
\* sell prices of the form (whole numbers): 0 (not given), 22, 23
PriceInputs == {0, 22000, 23000}
\* sell prices typed into the table: 17.5, 21
EditedPrices == {17500, 21000}
\* rows of the table that are edited
MaxItems == 2

PriceNext ==
    \/ \E it \in Items, r \in PriceRates, sp \in PriceInputs : SaveItem(it, r, sp)
    \/ \E i \in 1..MaxItems, sp \in EditedPrices : SaveInventory(i, sp)

PriceSpec == Init /\ [][PriceNext]_vars

----------------------------------------------------------------------------
(* The running-balance variant (src/main.py): every user row carries a      *)
(* credit_limit and a current_balance, and order_page adds the total of a   *)
(* Credit order to the customer's current_balance.  Amounts are whole       *)
(* rupees.                                                                  *)

\* mobiles that read_csv parses as numbers
NumericText == {"9000000001"}

\* the mobile column read by pd.read_csv without dtype: it holds text only
\* when some mobile is not a number; None is written as an empty field
object_column(df) ==
    \E i \in DOMAIN df : df[i].mobile # "" /\ df[i].mobile \notin NumericText

\* users_df['mobile'] == text, for row i: a numeric column equals no text
mobile_eq(df, i, text) == object_column(df) /\ df[i].mobile = text

\* price of the one menu item, quantity * price is the total
MenuPrice == 30

\* generate_id(prefix): prefix and the time of the call
generate_id(prefix, now) == prefix \o "_" \o ToString(now)

\* users_df[users_df['user_id'] == customer_id].iloc[0], 0 when empty
user_index(df, user_id) ==
    IF \E i \in DOMAIN df : df[i].user_id = user_id
    THEN CHOOSE i \in DOMAIN df :
            /\ df[i].user_id = user_id
            /\ \A j \in DOMAIN df : df[j].user_id = user_id => i <= j
    ELSE 0

\* users_df[(mobile == customer_mobile) & (role == 'customer')]: row labels
customers_with(df, customer_mobile) ==
    {i \in DOMAIN df : mobile_eq(df, i, customer_mobile) /\ df[i].role = "customer"}

refused(msg, users_df, orders_df) ==
    [ok |-> FALSE, msg |-> msg, customer_id |-> "", new_balance |-> 0,
     users |-> users_df, orders |-> orders_df]

\* users_df.loc[users_df['user_id'] == customer_id, 'current_balance'] = new_balance
set_balance(users_df, customer_id, new_balance) ==
    [i \in DOMAIN users_df |->
        IF users_df[i].user_id = customer_id
        THEN [users_df[i] EXCEPT !.current_balance = new_balance]
        ELSE users_df[i]]

\* a variant that returns when the credit limit is exceeded
placed_within_limit(users_df, orders_df, user_id, user_role, customer_id, total, payment_mode) ==
    LET idx == user_index(users_df, customer_id)
        new_balance == IF payment_mode = "Credit" THEN users_df[idx].current_balance + total ELSE 0
    IN  IF payment_mode = "Credit" /\ new_balance > users_df[idx].credit_limit
        THEN refused("Credit limit exceeded!", users_df, orders_df)
        ELSE [ok |-> TRUE, msg |-> "Order placed successfully!",
              customer_id |-> customer_id, new_balance |-> new_balance,
              users |-> IF payment_mode = "Credit"
                        THEN set_balance(users_df, customer_id, new_balance) ELSE users_df,
              orders |-> Append(orders_df,
                                [customer_id |-> customer_id,
                                 staff_id |-> IF user_role = "staff" THEN user_id ELSE "",
                                 total_amount |-> total, payment_mode |-> payment_mode])]

\* order_page from "Check credit limit" on: the limit only warns, the order
\* is appended and a Credit order's total is added to the balance
placed(users_df, orders_df, user_id, user_role, customer_id, total, payment_mode) ==
    LET idx == user_index(users_df, customer_id)
        new_balance == IF payment_mode = "Credit" THEN users_df[idx].current_balance + total ELSE 0
    IN  [ok |-> TRUE,
         msg |-> IF payment_mode = "Credit" /\ new_balance > users_df[idx].credit_limit
                 THEN "Credit limit exceeded!" ELSE "Order placed successfully!",
         customer_id |-> customer_id, new_balance |-> new_balance,
         users |-> IF payment_mode = "Credit"
                   THEN set_balance(users_df, customer_id, new_balance) ELSE users_df,
         orders |-> Append(orders_df,
                           [customer_id |-> customer_id,
                            staff_id |-> IF user_role = "staff" THEN user_id ELSE "",
                            total_amount |-> total, payment_mode |-> payment_mode])]

\* order_page, "Place Order" pressed
order_page(users_df, orders_df, user_id, user_role, customer_mobile, quantity, payment_mode) ==
    LET total == quantity * MenuPrice
    IN  IF quantity <= 0
        THEN refused("Please select at least one item", users_df, orders_df)
        ELSE IF payment_mode # "Credit"
        THEN placed(users_df, orders_df, user_id, user_role, "", total, payment_mode)
        ELSE IF user_role = "staff" /\ customer_mobile = ""
        THEN refused("Please enter customer mobile for credit order", users_df, orders_df)
        ELSE IF user_role = "customer"
        THEN placed(users_df, orders_df, user_id, user_role, user_id, total, payment_mode)
        ELSE IF user_role = "staff"
        THEN IF customers_with(users_df, customer_mobile) = {}
             THEN refused("Customer not found", users_df, orders_df)
             ELSE LET c == CHOOSE i \in customers_with(users_df, customer_mobile) :
                              \A j \in customers_with(users_df, customer_mobile) : i <= j
                  IN  placed(users_df, orders_df, user_id, user_role,
                             users_df[c].user_id, total, payment_mode)
        \* an admin: customer_id is None and .iloc[0] of the empty selection raises
        ELSE refused("IndexError", users_df, orders_df)

\* login_page: who can hold a session; a customer logs in by mobile
can_login(df, i) ==
    /\ df[i].status = "active"
    /\ df[i].role = "customer" => mobile_eq(df, i, df[i].mobile)

\* a store the operator has seeded with an admin and one menu item
RunInit ==
    /\ inventory = <<>>
    /\ orders = <<>>
    /\ expenses = <<>>
    /\ payments = <<>>
    /\ last = Call("init_files", "", 0, 0, "", "", TRUE, "", 0)
    /\ calls = 0
    /\ report = new_df(<<>>)
    /\ pc = NoSession /\ arg = NoSession /\ inv = NoSession /\ res = NoSession
    /\ inv0 = <<>> /\ overlap = FALSE
    /\ again = FALSE
    /\ mem = new_df(<<>>) /\ disk = NoFile /\ got = NotLoaded
    /\ users = <<>>
    /\ accounts = <<[user_id |-> "ADMIN_0", mobile |-> "", role |-> "admin", status |-> "active",
                     credit_limit |-> 0, current_balance |-> 0]>>
    /\ tickets = <<>>
    /\ db_inventory = <<>>
    /\ db_sales = <<>>

\* customer_register_form
Register(mobile) ==
    /\ Tick
    /\ accounts' =
          IF \E i \in DOMAIN accounts : mobile_eq(accounts, i, mobile)
          THEN accounts
          ELSE Append(accounts,
                      [user_id |-> generate_id("CUST", calls + 1), mobile |-> mobile,
                       role |-> "customer", status |-> "active",
                       credit_limit |-> 0, current_balance |-> 0])
    /\ last' = Call("register", "", 0, 0, mobile, "", accounts' # accounts, "", 0)
    /\ UNCHANGED <<tables, report, sessions, store, users, tickets, db_inventory, db_sales>>

\* user_management_page, add_user_form (the admin's page)
AddAccount(role, mobile, credit_limit) ==
    /\ Tick
    /\ accounts' =
          Append(accounts,
                 [user_id |-> generate_id(IF role = "staff" THEN "STAFF" ELSE "CUSTOMER", calls + 1),
                  mobile |-> IF role = "customer" THEN mobile ELSE "",
                  role |-> role, status |-> "active",
                  credit_limit |-> IF role = "customer" THEN credit_limit ELSE 0,
                  current_balance |-> 0])
    /\ last' = Call("add_user", "", 0, 0, mobile, role, TRUE, "", 0)
    /\ UNCHANGED <<tables, report, sessions, store, users, tickets, db_inventory, db_sales>>

\* the user of row u is logged in and submits the order form
PlaceOrder(u, customer_mobile, quantity, payment_mode) ==
    /\ Tick
    /\ u \in DOMAIN accounts
    /\ can_login(accounts, u)
    /\ accounts[u].role # "staff" => customer_mobile = ""
    /\ LET r == order_page(accounts, tickets, accounts[u].user_id, accounts[u].role,
                           customer_mobile, quantity, payment_mode)
       IN  /\ accounts' = r.users
           /\ tickets' = r.orders
           /\ last' = Call("order_page", r.customer_id, quantity, quantity * MenuPrice,
                           accounts[u].user_id, payment_mode, r.ok, r.msg, r.new_balance)
    /\ UNCHANGED <<tables, report, sessions, store, users, db_inventory, db_sales>>

\* rows of users.csv a session is held for
MaxAccounts == 3
RunMobiles == {"9000000001", "+91 90000 00002"}
RunLimits == {100}
RunQuantities == {0, 2}

RunNext ==
    \/ \E m \in RunMobiles : Register(m)
    \/ \E m \in RunMobiles, l \in RunLimits : AddAccount("customer", m, l)
    \/ AddAccount("staff", "", 0)
    \/ \E u \in 1..MaxAccounts, m \in RunMobiles \cup {""}, q \in RunQuantities,
          pm \in {"Paid", "Credit"} : PlaceOrder(u, m, q, pm)

RunSpec == RunInit /\ [][RunNext]_vars

----------------------------------------------------------------------------
(* The database variant (src/modules): inventory and sales are two tables   *)
(* of a database, update_inventory checks the quantity before it writes and *)
(* the sales page inserts a sale only after update_inventory returned True. *)

\* SELECT quantity FROM inventory WHERE item = ?: the row's position, 0 when
\* there is none (item is the primary key)
db_index(db, item) ==
    IF \E i \in DOMAIN db : db[i].item = item
    THEN CHOOSE i \in DOMAIN db : db[i].item = item
    ELSE 0

\* a variant that leaves out the test new_quantity < 0
update_inventory_unchecked(db, item, quantity_change) ==
    LET idx == db_index(db, item)
    IN  IF idx # 0
        THEN [ok |-> TRUE, db |-> [db EXCEPT ![idx].quantity = @ + quantity_change]]
        ELSE IF quantity_change < 0
             THEN [ok |-> FALSE, db |-> db]
             ELSE [ok |-> TRUE,
                   db |-> Append(db, [item |-> item, quantity |-> quantity_change])]

\* update_inventory: what it returns and the inventory table it leaves
update_inventory(db, item, quantity_change) ==
    LET idx == db_index(db, item)
    IN  IF idx # 0
        THEN IF db[idx].quantity + quantity_change < 0
             THEN [ok |-> FALSE, db |-> db]
             ELSE [ok |-> TRUE, db |-> [db EXCEPT ![idx].quantity = @ + quantity_change]]
        ELSE IF quantity_change < 0
             THEN [ok |-> FALSE, db |-> db]
             ELSE [ok |-> TRUE,
                   db |-> Append(db, [item |-> item, quantity |-> quantity_change])]

\* SELECT item FROM inventory WHERE quantity > 0: the items of the selectbox
available_items(db) == {db[i].item : i \in {j \in DOMAIN db : db[j].quantity > 0}}

\* a variant that inserts the sale first and updates the inventory after
manage_sales_insert_first(db, sales, item, quantity, rate) ==
    IF quantity <= 0 \/ rate <= 0
    THEN [ok |-> FALSE, msg |-> "Quantity and rate must be positive", db |-> db, sales |-> sales]
    ELSE LET u == update_inventory(db, item, -quantity)
         IN  [ok |-> u.ok,
              msg |-> IF u.ok THEN "Sale recorded successfully!"
                      ELSE "Insufficient inventory or item not found",
              db |-> u.db,
              sales |-> Append(sales, [item |-> item, quantity |-> quantity, rate |-> rate])]

\* manage_sales, the "Record Sale" button: the message shown and the tables left
manage_sales(db, sales, item, quantity, rate) ==
    IF quantity <= 0 \/ rate <= 0
    THEN [ok |-> FALSE, msg |-> "Quantity and rate must be positive", db |-> db, sales |-> sales]
    ELSE LET u == update_inventory(db, item, -quantity)
         IN  IF u.ok
             THEN [ok |-> TRUE, msg |-> "Sale recorded successfully!", db |-> u.db,
                   sales |-> Append(sales, [item |-> item, quantity |-> quantity, rate |-> rate])]
             ELSE [ok |-> FALSE, msg |-> "Insufficient inventory or item not found",
                   db |-> u.db, sales |-> sales]

\* update_inventory(item, quantity_change), called with any change
UpdateInventory(item, quantity_change) ==
    LET r == update_inventory(db_inventory, item, quantity_change)
    IN  /\ Tick
        /\ db_inventory' = r.db
        /\ last' = Call("update_inventory", item, quantity_change, 0, "", "", r.ok, "", 0)
        /\ UNCHANGED <<tables, report, sessions, store, users, accounts, tickets, db_sales>>

\* the sales form is submitted: the item is one of the selectbox
RecordSale(item, quantity, rate) ==
    LET r == manage_sales(db_inventory, db_sales, item, quantity, rate)
    IN  /\ Tick
        /\ item \in available_items(db_inventory)
        /\ db_inventory' = r.db
        /\ db_sales' = r.sales
        /\ last' = Call("manage_sales", item, quantity, rate, "", "", r.ok, r.msg, 0)
        /\ UNCHANGED <<tables, report, sessions, store, users, accounts, tickets>>

DbItems == {"tea", "samosa"}
DbChanges == {-2, -1, 0, 2}
DbQuantities == {1, 3}
\* rate per unit of the sales form: 0.0 and 2.5
DbRates == {0, 2500}

DbNext ==
    \/ \E it \in DbItems, ch \in DbChanges : UpdateInventory(it, ch)
    \/ \E it \in DbItems, q \in DbQuantities, r \in DbRates : RecordSale(it, q, r)

DbSpec == Init /\ [][DbNext]_vars

----------------------------------------------------------------------------
(* User management (src/app.py): the admin saves users, the script reruns   *)

\* the add_user form: create_or_update_user(u_id, u_name, u_role, u_mobile, ...)
CreateOrUpdateUser(user_id, name, role, mobile) ==
    /\ Tick
    /\ users' = create_or_update_user(users, user_id, name, role, mobile)
    /\ last' = Call("create_or_update_user", user_id, 0, 0, mobile, role, TRUE, "", 0)
    /\ UNCHANGED <<tables, report, sessions, store, accounts, tickets, db_inventory, db_sales>>

\* the script runs again from the top: bootstrap_files()
BootstrapFiles ==
    /\ Tick
    /\ users' = bootstrap_files(TRUE, users)
    /\ last' = Call("bootstrap_files", "", 0, 0, "", "", TRUE, "", 0)
    /\ UNCHANGED <<tables, report, sessions, store, accounts, tickets, db_inventory, db_sales>>

UserIds == {"admin", "u2"}
Mobiles == {"9999999999", "9000000001"}
Roles == {"staff", "customer"}

UsersNext ==
    \/ \E u \in UserIds, m \in Mobiles, r \in Roles : CreateOrUpdateUser(u, "Asha", r, m)
    \/ BootstrapFiles

UsersSpec == Init /\ [][UsersNext]_vars

----------------------------------------------------------------------------
(* Reading the tables *)

Exists(df, item_id) == first_index(df, item_id) # 0

StockOf(df, item_id) == df[first_index(df, item_id)].stock_qty

IsPrefix(s, t) == Len(s) <= Len(t) /\ SubSeq(t, 1, Len(s)) = s

LastRow(df) == df[Len(df)]

\* exactly one row was appended to df, the rows before it untouched
OneAppended(df, dfNext) == Len(dfNext) = Len(df) + 1 /\ IsPrefix(df, dfNext)

----------------------------------------------------------------------------
(* C1: every inventory row has stock_qty >= 0 in every reachable state,    *)
(* whatever purchases, orders, adjustments, upserts and deletes have run.  *)

C1_StockNeverNegative ==
    \A i \in DOMAIN inventory : inventory[i].stock_qty >= 0

(* C2: record_order for an existing item with qty above its stock reports  *)
(* insufficient stock and leaves both inventory.csv and orders.csv as they *)
(* were.                                                                   *)

C2_InsufficientOrderWritesNothing ==
    [][ ( /\ last'.op = "record_order"
          /\ Exists(inventory, last'.item_id)
          /\ last'.qty > StockOf(inventory, last'.item_id) )
        => ( /\ ~last'.ok
             /\ last'.msg = "Insufficient stock"
             /\ orders' = orders
             /\ inventory' = inventory ) ]_vars

(* C3: adjust_stock on an existing item with stock_qty + delta < 0 returns *)
(* the failure "Insufficient stock" and inventory.csv is not written: no   *)
(* row of it changes.                                                      *)

C3_AdjustFailureWritesNothing ==
    [][ ( /\ last'.op = "adjust_stock"
          /\ Exists(inventory, last'.item_id)
          /\ StockOf(inventory, last'.item_id) + last'.qty < 0 )
        => ( /\ ~last'.ok
             /\ last'.msg = "Insufficient stock"
             /\ inventory' = inventory ) ]_vars

\* a failed adjustment of one row of a table that holds another row as well
C3_Witness ==
    /\ last.op = "adjust_stock"
    /\ ~last.ok
    /\ last.msg = "Insufficient stock"
    /\ Len(inventory) = 2

(* C4: adjust_stock on an existing item with stock_qty + delta >= 0        *)
(* succeeds, returns stock_qty + delta, and the stock_qty read back from   *)
(* inventory.csv afterwards is that same value; delta = -stock_qty gives 0.*)

C4_AdjustSuccessPersists ==
    [][ ( /\ last'.op = "adjust_stock"
          /\ Exists(inventory, last'.item_id)
          /\ StockOf(inventory, last'.item_id) + last'.qty >= 0 )
        => ( /\ last'.ok
             /\ last'.val = StockOf(inventory, last'.item_id) + last'.qty
             /\ Exists(list_inventory(inventory'), last'.item_id)
             /\ StockOf(list_inventory(inventory'), last'.item_id) = last'.val ) ]_vars

\* the boundary: the whole stock is taken out and exactly 0 is left
C4_Witness ==
    /\ last.op = "adjust_stock"
    /\ last.ok
    /\ last.qty < 0
    /\ last.val = 0
    /\ StockOf(inventory, last.item_id) = 0

(* C5: record_order and record_purchase with an item_id that is not in     *)
(* inventory.csv report "Item not found" and write nothing: no row is      *)
(* appended to orders.csv or expenses.csv and inventory.csv is unchanged.  *)

C5_UnknownItemWritesNothing ==
    [][ ( /\ last'.op \in {"record_order", "record_purchase"}
          /\ ~Exists(inventory, last'.item_id) )
        => ( /\ ~last'.ok
             /\ last'.msg = "Item not found"
             /\ orders' = orders
             /\ expenses' = expenses
             /\ inventory' = inventory ) ]_vars

\* sums taken row by row over orders.csv and payments.csv, for comparison
RECURSIVE SumOver(_)
\* the sum of the values of a function with a finite domain
SumOver(f) ==
    IF DOMAIN f = {} THEN 0
    ELSE LET x == CHOOSE y \in DOMAIN f : TRUE
         IN  f[x] + SumOver([y \in DOMAIN f \ {x} |-> f[y]])

CreditSpellings == {"Credit", "credit", "CREDIT", "cREDIT"}

CreditTotalOf(c) ==
    SumOver([i \in {j \in DOMAIN orders :
                       orders[j].customer_id = c /\ orders[j].payment_mode \in CreditSpellings}
                |-> orders[i].total])

PaidTotalOf(c) ==
    SumOver([i \in {j \in DOMAIN payments : payments[j].customer_id = c}
                |-> payments[i].amount])

(* C6: after any sequence of record_order and record_payment calls, the    *)
(* pending_balance compute_customer_balances returns for a customer is the *)
(* sum of total over the customer's Order rows whose payment_mode is       *)
(* "Credit" in any letter case, minus the sum of amount over the           *)
(* customer's Payment rows; Cash orders do not count.                      *)

C6_PendingBalance ==
    last.op = "compute_customer_balances" =>
        \A k \in DOMAIN report.rows :
            report.rows[k].pending_balance
                = CreditTotalOf(report.rows[k].customer_id)
                    - PaidTotalOf(report.rows[k].customer_id)

\* a customer with an upper-case Credit order, a Cash order and a payment
C6_Witness ==
    /\ last.op = "compute_customer_balances"
    /\ \E k \in DOMAIN report.rows :
          /\ report.rows[k].pending_balance > 0
          /\ report.rows[k].payments_total > 0
          /\ \E i \in DOMAIN orders :
                /\ orders[i].customer_id = report.rows[k].customer_id
                /\ orders[i].payment_mode = "CREDIT"
          /\ \E i \in DOMAIN orders :
                /\ orders[i].customer_id = report.rows[k].customer_id
                /\ orders[i].payment_mode = "Cash"

(* C7: record_purchase for an existing item and qty > 0 always succeeds,   *)
(* appends exactly one Purchase row with amount = qty * rate and raises    *)
(* the item's stock_qty by exactly qty.                                    *)

C7_PurchaseAlwaysSucceeds ==
    [][ ( /\ last'.op = "record_purchase"
          /\ Exists(inventory, last'.item_id)
          /\ last'.qty > 0 )
        => ( /\ last'.ok
             /\ OneAppended(expenses, expenses')
             /\ LastRow(expenses').type = "Purchase"
             /\ LastRow(expenses').amount = Mul(last'.qty, last'.price)
             /\ StockOf(inventory', last'.item_id)
                    = StockOf(inventory, last'.item_id) + last'.qty ) ]_vars

(* C8: record_order for an existing item and qty <= stock_qty succeeds,    *)
(* lowers the item's stock_qty by exactly qty and appends exactly one      *)
(* Order row with total = qty * price and balance = total for Credit, 0    *)
(* for Cash.                                                               *)

C8_OrderTotalIsQtyTimesPrice ==
    [][ ( /\ last'.op = "record_order"
          /\ Exists(inventory, last'.item_id)
          /\ last'.qty <= StockOf(inventory, last'.item_id) )
        => ( /\ last'.ok
             /\ StockOf(inventory', last'.item_id)
                    = StockOf(inventory, last'.item_id) - last'.qty
             /\ OneAppended(orders, orders')
             /\ LastRow(orders').total = Mul(last'.qty, last'.price)
             /\ (last'.mode = "Credit" => LastRow(orders').balance = LastRow(orders').total)
             /\ (last'.mode = "Cash" => LastRow(orders').balance = 0) ) ]_vars

(* C8 as amended: the same, with total = qty times the price truncated to  *)
(* a whole number, rounded to two decimals.                                *)

C8_OrderSucceeds ==
    [][ ( /\ last'.op = "record_order"
          /\ Exists(inventory, last'.item_id)
          /\ last'.qty <= StockOf(inventory, last'.item_id) )
        => ( /\ last'.ok
             /\ last'.val = StockOf(inventory, last'.item_id) - last'.qty
             /\ StockOf(inventory', last'.item_id)
                    = StockOf(inventory, last'.item_id) - last'.qty
             /\ OneAppended(orders, orders')
             /\ LastRow(orders').total = Round2(Mul(last'.qty, TruncInt(last'.price)))
             /\ (last'.mode = "Credit" => LastRow(orders').balance = LastRow(orders').total)
             /\ (last'.mode = "Cash" => LastRow(orders').balance = 0) ) ]_vars

\* a Credit order that went through: the row carries its total as balance
C8_Witness ==
    /\ last.op = "record_order"
    /\ last.ok
    /\ last.mode = "Credit"
    /\ LastRow(orders).total > 0
    /\ LastRow(orders).balance = LastRow(orders).total

BothSucceeded == \A p \in Procs : pc[p] = "done" /\ res[p].ok

SameItem == \A p, q \in Procs : arg[p].item_id = arg[q].item_id

(* C9: adjust_stock is a read-modify-write without a lock: when two calls  *)
(* on the same item both read before either saves and both report success, *)
(* the stock_qty left in the file is the initial value plus the delta of   *)
(* one call only; the other update is lost.                                *)

C9_LostUpdate ==
    (BothSucceeded /\ SameItem /\ overlap) =>
        /\ \E p \in Procs :
              StockOf(inventory, arg[p].item_id)
                  = StockOf(inv0, arg[p].item_id) + arg[p].delta
        /\ StockOf(inventory, arg[1].item_id)
              # StockOf(inv0, arg[1].item_id) + arg[1].delta + arg[2].delta

\* both calls returned success and the file does not hold initial + delta1 + delta2
C9_Witness ==
    /\ BothSucceeded
    /\ SameItem
    /\ overlap
    /\ StockOf(inventory, arg[1].item_id)
          # StockOf(inv0, arg[1].item_id) + arg[1].delta + arg[2].delta

(* C10: orders.csv, payments.csv and expenses.csv are append-only: no call *)
(* of record_order, record_payment, record_purchase, record_expense or     *)
(* adjust_stock changes or removes a row already written, so an Order      *)
(* row's balance stays what it was at insert time.                         *)

HasCreditOrder(c) ==
    \E i \in DOMAIN orders :
        orders[i].customer_id = c /\ orders[i].payment_mode \in CreditSpellings

HasPayment(c) == \E i \in DOMAIN payments : payments[i].customer_id = c

RowsOf(c) == {k \in DOMAIN report.rows : report.rows[k].customer_id = c}

(* C11: record_payment appends exactly one Payment row for any customer    *)
(* and any amount, without looking at the customer's balance: also when    *)
(* the customer has no credit order and when the amount is above the       *)
(* pending balance; orders, inventory and expenses stay as they were.      *)

C11_PaymentAlwaysAppends ==
    [][ last'.op = "record_payment"
        => ( /\ last'.ok
             /\ OneAppended(payments, payments')
             /\ LastRow(payments') = payment_row(last'.customer, last'.price)
             /\ orders' = orders
             /\ inventory' = inventory
             /\ expenses' = expenses ) ]_vars

\* the balances shown after a payment without any credit order and after an
\* overpayment: both customers have a negative pending_balance
C11_Witness ==
    /\ last.op = "compute_customer_balances"
    /\ \E k \in DOMAIN report.rows :
          /\ ~HasCreditOrder(report.rows[k].customer_id)
          /\ report.rows[k].pending_balance < 0
    /\ \E k \in DOMAIN report.rows :
          /\ HasCreditOrder(report.rows[k].customer_id)
          /\ report.rows[k].payments_total > report.rows[k].credit_sales_total
          /\ report.rows[k].pending_balance < 0

(* C12: the table compute_customer_balances returns has exactly one row    *)
(* for every customer with at least one Credit order or at least one       *)
(* Payment, the missing side reported as 0, and no row for anyone else.    *)

C12_OneRowPerCustomer ==
    last.op = "compute_customer_balances" =>
        /\ \A k \in DOMAIN report.rows : report.rows[k].customer_id \in Customers
        /\ \A c \in Customers :
              Cardinality(RowsOf(c)) = IF HasCreditOrder(c) \/ HasPayment(c) THEN 1 ELSE 0
        /\ \A k \in DOMAIN report.rows :
              /\ (~HasCreditOrder(report.rows[k].customer_id)
                    => report.rows[k].credit_sales_total = 0)
              /\ (~HasPayment(report.rows[k].customer_id)
                    => report.rows[k].payments_total = 0)

\* one customer with credit sales only, the other with payments only
C12_Witness ==
    /\ last.op = "compute_customer_balances"
    /\ \E c, d \in Customers :
          /\ HasCreditOrder(c) /\ ~HasPayment(c) /\ RowsOf(c) # {}
          /\ HasPayment(d) /\ ~HasCreditOrder(d) /\ RowsOf(d) # {}

(* C13: with orders.csv and payments.csv both empty,                       *)
(* compute_customer_balances returns a table with no rows and exactly the  *)
(* columns customer_id, credit_sales_total, payments_total,                *)
(* pending_balance.                                                        *)

C13_EmptyBalances ==
    (last.op = "compute_customer_balances" /\ orders = <<>> /\ payments = <<>>) =>
        /\ report.rows = <<>>
        /\ report.columns
              = <<"customer_id", "credit_sales_total", "payments_total", "pending_balance">>

\* the balances page opened before any order or payment was recorded
C13_Witness ==
    /\ last.op = "compute_customer_balances"
    /\ orders = <<>>
    /\ payments = <<>>
    /\ Len(report.columns) = 4

(* C14: compute_customer_balances is a pure read: no table changes in the  *)
(* call, and two calls in a row with no write between them return the same *)
(* table.                                                                  *)

C14_PureRead ==
    [][ last'.op = "compute_customer_balances"
        => ( /\ tables' = tables
             /\ (last.op = "compute_customer_balances" => report' = report) ) ]_vars

\* the balances computed twice in a row over a ledger that is not empty
C14_Witness ==
    /\ last.op = "compute_customer_balances"
    /\ again
    /\ report.rows # <<>>

(* C15: for every table matching the canonical schema, save_csv followed   *)
(* by load_csv of the same entity gives a table equal to the original,     *)
(* column for column and row for row: no value altered, dropped or         *)
(* re-typed.                                                               *)

C15_RoundTrip ==
    (got.loaded /\ disk = save_csv(mem)) => got.df = mem

(* C16: load_csv reports no error for a missing file or for a file that    *)
(* lacks expected columns: a missing file gives an empty table with the    *)
(* canonical columns in canonical order, a file lacking columns gives all  *)
(* its rows with each missing column added and filled with an empty or     *)
(* null value.                                                             *)

C16_LoadBackfills ==
    got.loaded =>
        /\ got.df.columns = StoreCols
        /\ (~disk.exists => got.df.rows = <<>>)
        /\ (disk.exists =>
              /\ Len(got.df.rows) = Len(disk.rows)
              /\ \A i \in DOMAIN got.df.rows : \A c \in Range(StoreCols) :
                    IF c \in Range(disk.columns)
                    THEN got.df.rows[i][c]
                            = read_cell(disk.rows[i][index_of(disk.columns, c)])
                    ELSE got.df.rows[i][c] \in {None, NaN, Str("")})

\* a file without the remarks column was loaded: its rows came back with
\* remarks added and null
C16_Witness ==
    /\ got.loaded
    /\ disk.exists
    /\ "remarks" \notin Range(disk.columns)
    /\ Len(got.df.rows) >= 1
    /\ \A i \in DOMAIN got.df.rows : got.df.rows[i]["remarks"] = None

(* C17: the rows compute_customer_balances returns are in order of         *)
(* non-increasing pending_balance: each row's pending_balance is >= that   *)
(* of the row after it.                                                    *)

C17_SortedDescending ==
    last.op = "compute_customer_balances" =>
        \A k \in DOMAIN report.rows :
            k < Len(report.rows)
                => report.rows[k].pending_balance >= report.rows[k + 1].pending_balance

\* two customers, the one that groupby lists second owes more and comes first
C17_Witness ==
    /\ last.op = "compute_customer_balances"
    /\ Len(report.rows) = 2
    /\ report.rows[1].customer_id = CustomerOrder[2]
    /\ report.rows[1].pending_balance > report.rows[2].pending_balance

(* C18: record_expense appends exactly one row of type Expense with a      *)
(* blank item_id to expenses.csv and leaves inventory.csv (every           *)
(* stock_qty), orders.csv and payments.csv unchanged.                      *)

C18_ExpenseLeavesStock ==
    [][ last'.op = "record_expense"
        => ( /\ OneAppended(expenses, expenses')
             /\ LastRow(expenses').type = "Expense"
             /\ LastRow(expenses').item_id = ""
             /\ LastRow(expenses').amount = last'.price
             /\ inventory' = inventory
             /\ orders' = orders
             /\ payments' = payments ) ]_vars

\* an expense recorded while the inventory holds an item
C18_Witness ==
    /\ last.op = "record_expense"
    /\ inventory # <<>>
    /\ LastRow(expenses).type = "Expense"
    /\ LastRow(expenses).item_id = ""

PurchasedQty(item_id) ==
    SumOver([i \in {j \in DOMAIN expenses :
                       expenses[j].type = "Purchase" /\ expenses[j].item_id = item_id}
                |-> expenses[i].qty])

OrderedQty(item_id) ==
    SumOver([i \in {j \in DOMAIN orders : orders[j].item_id = item_id} |-> orders[i].qty])

(* C19: stock conservation: when only record_purchase and record_order run *)
(* on an item that exists throughout, its stock_qty always equals its      *)
(* initial stock_qty plus the qty of its Purchase rows minus the qty of    *)
(* its Order rows.                                                         *)

C19_StockConservation ==
    \A i \in DOMAIN inv0 :
        /\ Exists(inventory, inv0[i].item_id)
        /\ StockOf(inventory, inv0[i].item_id)
              = inv0[i].stock_qty + PurchasedQty(inv0[i].item_id) - OrderedQty(inv0[i].item_id)

(* C20: a successful adjust_stock(item_id, delta) changes only the         *)
(* stock_qty of the one row whose item_id matches: every other field of    *)
(* that row, every field of every other row and the number of rows are the *)
(* same after the call as before.                                          *)

C20_AdjustChangesOnlyStock ==
    [][ (last'.op = "adjust_stock" /\ last'.ok)
        => ( /\ Len(inventory') = Len(inventory)
             /\ \A i \in DOMAIN inventory :
                   inventory'[i]
                     = IF i = first_index(inventory, last'.item_id)
                       THEN [inventory[i] EXCEPT !.stock_qty = last'.val]
                       ELSE inventory[i] ) ]_vars

(* C26: user_id and mobile are each unique in users.csv: after bootstrap   *)
(* and any sequence of create_or_update_user calls with arbitrary user_id  *)
(* and mobile, no two rows share a user_id and no two rows share a mobile. *)

C26_UsersUnique ==
    \A i, j \in DOMAIN users :
        i # j => (users[i].user_id # users[j].user_id /\ users[i].mobile # users[j].mobile)

(* C21 as stated: two concurrent adjust_stock calls on two different items *)
(* do not interfere: whenever both report success, each item's final       *)
(* stock_qty is its initial stock_qty plus its own delta.                  *)

C21_NoInterference ==
    (BothSucceeded /\ ~SameItem) =>
        \A p \in Procs :
            StockOf(inventory, arg[p].item_id)
                = StockOf(inv0, arg[p].item_id) + arg[p].delta

(* C21, amended: save_csv writes the whole table, so the last writer wins. *)
(* When two adjust_stock calls on different items both report success: if  *)
(* one returned before the other read, each item ends at initial + its own *)
(* delta; if both read before either saved, the file is the last writer's  *)
(* table: that call's item is at initial + its delta and the other item is *)
(* back at its initial stock_qty.                                          *)

C21_LastWriterWins ==
    (BothSucceeded /\ ~SameItem) =>
        IF overlap
        THEN \E p \in Procs :
                /\ inventory = inv[p]
                /\ StockOf(inventory, arg[p].item_id)
                      = StockOf(inv0, arg[p].item_id) + arg[p].delta
                /\ \A q \in Procs \ {p} :
                      StockOf(inventory, arg[q].item_id) = StockOf(inv0, arg[q].item_id)
        ELSE \A p \in Procs :
                StockOf(inventory, arg[p].item_id)
                    = StockOf(inv0, arg[p].item_id) + arg[p].delta

\* both calls succeeded on different items and one item is back at its initial stock
C21_Witness ==
    /\ BothSucceeded
    /\ ~SameItem
    /\ overlap
    /\ \E q \in Procs :
          /\ arg[q].delta # 0
          /\ StockOf(inventory, arg[q].item_id) = StockOf(inv0, arg[q].item_id)

\* what the successful calls on an item add up to
DeltaSum(item_id) ==
    SeqSum([p \in ManyProcs |->
              IF arg[p].item_id = item_id /\ res[p].ok THEN arg[p].delta ELSE 0])

(* C22: from an inventory in which every stock_qty >= 0, every state       *)
(* reachable by interleaving the read and write steps of any number of     *)
(* concurrent adjust_stock calls has stock_qty >= 0 for every item, in the *)
(* file and in every table a call is about to save, also when updates are  *)
(* lost.                                                                   *)

C22_ConcurrentStockNonNegative ==
    /\ \A i \in DOMAIN inventory : inventory[i].stock_qty >= 0
    /\ \A p \in ManyProcs : \A i \in DOMAIN inv[p] : inv[p][i].stock_qty >= 0

\* every call returned, an update was lost, and a withdrawal was refused
C22_Witness ==
    /\ \A p \in ManyProcs : pc[p] = "done"
    /\ \E p \in ManyProcs : ~res[p].ok /\ res[p].msg = "Insufficient stock"
    /\ \E it \in {"milk", "butter"} :
          StockOf(inventory, it) # StockOf(inv0, it) + DeltaSum(it)
    /\ \A i \in DOMAIN inventory : inventory[i].stock_qty >= 0

\* the credit_sales_total the balances table shows for a customer, 0 without a row
ReportedCredit(c) ==
    IF RowsOf(c) = {} THEN 0
    ELSE SumOver([k \in RowsOf(c) |-> report.rows[k].credit_sales_total])

\* the balance fields of a customer's Order rows, added up
BalanceFieldOf(c) ==
    SumOver([i \in {j \in DOMAIN orders : orders[j].customer_id = c} |-> orders[i].balance])

(* C23: the credit classification is the same at insert time and at        *)
(* balance time: for every customer and every payment_mode string passed   *)
(* to record_order (any letter case, with or without surrounding           *)
(* whitespace), the credit_sales_total compute_customer_balances reports   *)
(* equals the sum of the balance field over the customer's Order rows.     *)

C23_SameClassification ==
    last.op = "compute_customer_balances" =>
        \A c \in Customers : ReportedCredit(c) = BalanceFieldOf(c)

\* the quantity of an item in the database, 0 without a row
QuantityOf(db, item) ==
    IF db_index(db, item) = 0 THEN 0 ELSE db[db_index(db, item)].quantity

(* C24: in the sales module a sale row is inserted only after              *)
(* update_inventory(item, -quantity) has returned True, and then the       *)
(* item's quantity has gone down by the quantity sold; when                *)
(* update_inventory returns False (or the form is refused) neither the     *)
(* sales table nor the inventory table changes.                            *)

C24_SaleOnlyAfterUpdate ==
    [][ last'.op = "manage_sales"
        => /\ db_sales' # db_sales
              => ( /\ last'.ok
                   /\ update_inventory(db_inventory, last'.item_id, -last'.qty).ok
                   /\ last'.qty <= QuantityOf(db_inventory, last'.item_id)
                   /\ QuantityOf(db_inventory', last'.item_id)
                         = QuantityOf(db_inventory, last'.item_id) - last'.qty
                   /\ OneAppended(db_sales, db_sales')
                   /\ LastRow(db_sales').item = last'.item_id
                   /\ LastRow(db_sales').quantity = last'.qty )
           /\ last'.ok => db_sales' # db_sales
           /\ ~update_inventory(db_inventory, last'.item_id, -last'.qty).ok
              => (db_sales' = db_sales /\ db_inventory' = db_inventory)
           /\ ~last'.ok => (db_sales' = db_sales /\ db_inventory' = db_inventory) ]_vars

\* after a sale that went through, a sale of more than what is left was refused
C24_Witness ==
    /\ last.op = "manage_sales"
    /\ ~last.ok
    /\ last.msg = "Insufficient inventory or item not found"
    /\ last.qty > QuantityOf(db_inventory, last.item_id)
    /\ QuantityOf(db_inventory, last.item_id) > 0
    /\ db_sales # <<>>

(* C30: in the database variant, after any sequence of update_inventory    *)
(* calls every inventory quantity is >= 0: a change that would make an     *)
(* existing item's quantity negative returns False and changes nothing, a  *)
(* negative change for an unknown item returns False and inserts nothing,  *)
(* and a non-negative change for an unknown item inserts that item with    *)
(* quantity equal to the change.                                           *)

C30_QuantityNeverNegative ==
    [][ /\ \A i \in DOMAIN db_inventory' : db_inventory'[i].quantity >= 0
        /\ last'.op = "update_inventory"
           => LET known == db_index(db_inventory, last'.item_id) # 0
              IN  /\ (known /\ QuantityOf(db_inventory, last'.item_id) + last'.qty < 0)
                     => (~last'.ok /\ db_inventory' = db_inventory)
                  /\ (known /\ QuantityOf(db_inventory, last'.item_id) + last'.qty >= 0)
                     => ( /\ last'.ok
                          /\ Len(db_inventory') = Len(db_inventory)
                          /\ QuantityOf(db_inventory', last'.item_id)
                                = QuantityOf(db_inventory, last'.item_id) + last'.qty )
                  /\ (~known /\ last'.qty < 0)
                     => (~last'.ok /\ db_inventory' = db_inventory)
                  /\ (~known /\ last'.qty >= 0)
                     => ( /\ last'.ok
                          /\ OneAppended(db_inventory, db_inventory')
                          /\ LastRow(db_inventory')
                                = [item |-> last'.item_id, quantity |-> last'.qty] ) ]_vars

\* a withdrawal of more than an existing item holds was refused
C30_Witness ==
    /\ last.op = "update_inventory"
    /\ ~last.ok
    /\ db_index(db_inventory, last.item_id) # 0
    /\ QuantityOf(db_inventory, last.item_id) > 0
    /\ QuantityOf(db_inventory, last.item_id) + last.qty < 0

(* C25: item_id is a unique key of the inventory table: after any sequence *)
(* of upsert_inventory, delete_inventory and adjust_stock calls (and of    *)
(* the ledger calls that adjust the stock) no two rows share an item_id;   *)
(* an upsert with an existing item_id updates that row in place and leaves *)
(* the row count unchanged, an upsert with a new item_id adds exactly one  *)
(* row.                                                                    *)

C25_ItemIdUnique ==
    [][ /\ \A i, j \in DOMAIN inventory' :
              inventory'[i].item_id = inventory'[j].item_id => i = j
        /\ last'.op = "upsert_inventory"
           => IF Exists(inventory, last'.item_id)
              THEN /\ Len(inventory') = Len(inventory)
                   /\ \A i \in DOMAIN inventory :
                         /\ inventory'[i].item_id = inventory[i].item_id
                         /\ inventory[i].item_id # last'.item_id
                            => inventory'[i].stock_qty = inventory[i].stock_qty
                   /\ StockOf(inventory', last'.item_id) = last'.qty
              ELSE /\ Len(inventory') = Len(inventory) + 1
                   /\ \A i \in DOMAIN inventory :
                         /\ inventory'[i].item_id = inventory[i].item_id
                         /\ inventory'[i].stock_qty = inventory[i].stock_qty
                   /\ LastRow(inventory').item_id = last'.item_id
                   /\ LastRow(inventory').stock_qty = last'.qty ]_vars

\* milk was added before butter and has just been saved again: still two rows
C25_Witness ==
    /\ last.op = "upsert_inventory"
    /\ last.item_id = "milk"
    /\ Len(inventory) = 2
    /\ inventory[1].item_id = "milk"
    /\ inventory[2].item_id = "butter"

(* C27: bootstrap creates the default admin account (mobile 9999999999)    *)
(* when the store has no users, and is idempotent: run again on a          *)
(* bootstrapped store, in any state reachable through user edits,          *)
(* including one where the admin was deactivated, it adds no row and       *)
(* changes no existing user row.                                           *)

C27_BootstrapIdempotent ==
    [][ last'.op = "bootstrap_files_and_default_admin"
        => IF users = <<>>
           THEN Len(users') = 1 /\ users'[1].mobile = "9999999999"
           ELSE users' = users ]_vars

\* the multiple of 5 nearest to x >= 0, a tie taken away from zero
RoundHalfAway5(x) ==
    LET q == x \div (5 * One)
        r == x % (5 * One)
    IN  (IF 2 * r < 5 * One THEN q ELSE q + 1) * 5 * One

(* C28: round_to_5_int(x) returns the multiple of 5 nearest to x, and when *)
(* x lies exactly halfway between two multiples of 5 it returns the one    *)
(* farther from zero; consequently every sell_price persisted by           *)
(* save_inventory_df is a multiple of 5.                                   *)

C28_RoundHalfAwayFromZero ==
    [][ /\ \A i \in DOMAIN inventory' : inventory'[i].sell_price % (5 * One) = 0
        /\ last'.op \in {"upsert_inventory_item", "save_inventory_df"}
           => inventory'[first_index(inventory', last'.item_id)].sell_price
                 = RoundHalfAway5(last'.price) ]_vars

\* the role of the user of a session
RoleOf(df, user_id) == df[user_index(df, user_id)].role

(* C29: in the running-balance variant, placing a Credit order sets that   *)
(* customer's current_balance to its previous value plus the order total   *)
(* and changes no other user's balance, also when the new balance exceeds  *)
(* the customer's credit_limit (the limit only warns and never blocks the  *)
(* order: a customer's Credit order of one item or more is always placed); *)
(* a Paid order leaves every current_balance unchanged.                    *)

C29_CreditAddsToBalance ==
    [][ last'.op = "order_page"
        => /\ (last'.ok /\ last'.mode = "Credit")
              => ( /\ user_index(accounts, last'.item_id) # 0
                   /\ Len(accounts') = Len(accounts)
                   /\ \A i \in DOMAIN accounts :
                         accounts'[i] =
                            IF accounts[i].user_id = last'.item_id
                            THEN [accounts[i] EXCEPT
                                     !.current_balance = @ + last'.price]
                            ELSE accounts[i]
                   /\ OneAppended(tickets, tickets')
                   /\ LastRow(tickets').total_amount = last'.price )
           /\ (last'.ok /\ last'.mode = "Paid")
              => (accounts' = accounts /\ OneAppended(tickets, tickets'))
           /\ ~last'.ok => (accounts' = accounts /\ tickets' = tickets)
           /\ (RoleOf(accounts, last'.customer) = "customer" /\ last'.qty > 0)
              => last'.ok ]_vars

\* a Credit order took a customer above the credit limit, another customer
\* is in the table
C29_Witness ==
    /\ last.op = "order_page"
    /\ last.ok
    /\ last.mode = "Credit"
    /\ \E i, j \in DOMAIN accounts :
          /\ accounts[i].user_id = last.item_id
          /\ accounts[i].credit_limit > 0
          /\ accounts[i].current_balance > accounts[i].credit_limit
          /\ accounts[i].current_balance = last.val
          /\ j # i
          /\ accounts[j].role = "customer"

====
